---------------------------- MODULE Spec2Model ----------------------------
(***************************************************************************)
(* Model of src/main.py (VoiceToTextApp): the push-to-talk capture thread, *)
(* the file transcription and grammar tasks run through run_in_thread, and *)
(* the Tk main loop that runs the handlers and the after(0) callbacks.     *)
(*                                                                         *)
(* Text is a sequence of tokens ("sp" and "nl" are whitespace); audio is a *)
(* sequence of chunks ("sil" is silence).  One thread id is used per       *)
(* threading.Thread the program starts.                                    *)
(***************************************************************************)
EXTENDS Naturals, Sequences, FiniteSets

\* Bounds of the model.
MaxThreads == 2      \* threads started in one run
MaxChunks == 2       \* chunks the device delivers in one run
MaxWarnings == 1     \* submit_text calls that find the input box empty

Threads == 1..MaxThreads

VARIABLES
    is_recording,     \* self.is_recording
    audio_data,       \* self.audio_data
    text_box,         \* contents of self.text_box
    placeholder_box,  \* contents of self.placeholder_box
    recognizer,       \* audio held by self.recognizer since its last result
    kind,             \* kind[t]: what thread t runs ("none" before it is started)
    pc,               \* pc[t]: where thread t is
    loc,              \* loc[t]: locals and closure variables of thread t
    afterQueue,       \* callbacks scheduled with root.after(0, ...)
    outcomes,         \* history: outcomes[t] = what on_complete delivered for task t
    workerWrites,     \* history: the text widgets a worker thread has written
    warnings          \* history: "No Content" warnings shown

vars == <<is_recording, audio_data, text_box, placeholder_box, recognizer,
          kind, pc, loc, afterQueue, outcomes, workerWrites, warnings>>

-----------------------------------------------------------------------------
\* Texts and audio

Whitespace == {"sp", "nl"}
Chunks == {"sil", "hi"}
UserTexts == {<<"sp">>, <<"ok">>, <<"sp", "bad">>}
Extensions == {".wav", ".WAV", ".mp3"}
\* "hi44" is a voiced chunk at another sample rate
FileAudios == {<<"sil", "hi44">>}
None == <<"None">>
Processing == <<"Processing audio file...">>
RecordingNow == <<"Recording... Speak now.">>
\* A submission that leaves the output box as it finds it
NotMarked == placeholder_box
Checking == <<"Checking grammar...">>
CORRECT == <<"CORRECT">>

\* str.strip(): leading and trailing whitespace removed
RECURSIVE LStrip(_)
LStrip(s) ==
    IF s # <<>> /\ Head(s) \in Whitespace THEN LStrip(Tail(s)) ELSE s

RECURSIVE RStrip(_)
RStrip(s) ==
    IF s # <<>> /\ s[Len(s)] \in Whitespace
    THEN RStrip(SubSeq(s, 1, Len(s) - 1)) ELSE s

Strip(s) == RStrip(LStrip(s))

\* text_box.get(1.0, tk.END): the contents and the widget's final newline
Get(box) == Append(box, "nl")

\* str.lower() on the extension
Lower(e) == IF e = ".WAV" THEN ".wav" ELSE e

\* "-ar", "16000", "-ac", "1", "-f", "wav"
SampleRate == 16000
Channels == 1
FfmpegArgs == [ar |-> SampleRate, ac |-> Channels, f |-> "wav"]
NoCall == [ar |-> 0, ac |-> 0, f |-> ""]

\* ffmpeg's stdout for a file it can decode: the audio at the sample rate asked
Transcode(bytes, args) ==
    [i \in 1..Len(bytes) |->
        IF bytes[i] = "hi44" /\ args.ar = 16000 THEN "hi" ELSE bytes[i]]

\* text.startswith("Error:")
StartsWithError(text) == text # <<>> /\ text[1] = "Error:"

\* f"Error: {e}"
ErrorText(e) == <<"Error:", e>>

-----------------------------------------------------------------------------
\* External engines

\* The recognizer's text for the audio it holds: one word per voiced chunk
Transcribe(audio) == SelectSeq(audio, LAMBDA c : c # "sil")

\* self.tool.check(text): the issues found, one per "bad" word
Check(text) == {i \in 1..Len(text) : text[i] = "bad"}

\* self.tool.correct(text): every "bad" word replaced
Correct(text) == [i \in 1..Len(text) |-> IF text[i] = "bad" THEN "fix" ELSE text[i]]

-----------------------------------------------------------------------------
NoFile == [ext |-> "", audio |-> <<>>]

NoLoc == [file_path |-> NoFile, io |-> "none", ffmpeg |-> NoCall,
          data |-> <<>>, text |-> <<>>,
          before |-> <<>>, endpoint |-> "none", finalized |-> FALSE,
          raw_text |-> <<>>, matches |-> {}, corrected |-> None,
          checkedOn |-> None, correctedOn |-> None,
          stream |-> FALSE, nread |-> 0, accepted |-> FALSE,
          reads |-> <<>>, appends |-> <<>>, accepts |-> <<>>,
          stopped |-> FALSE, afterStop |-> 0, alone |-> FALSE]

Init ==
    /\ is_recording = FALSE
    /\ audio_data = <<>>
    /\ text_box = <<>>
    /\ placeholder_box = <<>>
    /\ recognizer = <<>>
    /\ kind = [t \in Threads |-> "none"]
    /\ pc = [t \in Threads |-> "none"]
    /\ loc = [t \in Threads |-> NoLoc]
    /\ afterQueue = <<>>
    /\ outcomes = [t \in Threads |-> <<>>]
    /\ workerWrites = {}
    /\ warnings = 0

\* threading.Thread(...).start(): the next unused thread id
Unused == {t \in Threads : kind[t] = "none"}
NewThread == CHOOSE t \in Unused : \A u \in Unused : t <= u

\* Every thread started so far has returned and its callback has run
Quiet ==
    \A u \in Threads :
        kind[u] # "none" =>
            /\ pc[u] = "done"
            /\ \A i \in DOMAIN afterQueue : afterQueue[i].task # u

-----------------------------------------------------------------------------
\* Handlers, run by the Tk main loop

\* reset_app(), and enable_manual_input(), which calls it and moves the focus
ClearBoxes ==
    /\ text_box' = <<>>
    /\ placeholder_box' = <<>>

reset_app ==
    /\ ClearBoxes
    /\ UNCHANGED <<is_recording, audio_data, recognizer, kind, pc, loc,
                   afterQueue, outcomes, workerWrites, warnings>>

enable_manual_input ==
    /\ ClearBoxes
    /\ UNCHANGED <<is_recording, audio_data, recognizer, kind, pc, loc,
                   afterQueue, outcomes, workerWrites, warnings>>

\* The user types or pastes into the input box
UserEdit ==
    \E txt \in UserTexts :
        /\ text_box' = txt
        /\ UNCHANGED <<is_recording, audio_data, placeholder_box, recognizer,
                       kind, pc, loc, afterQueue, outcomes, workerWrites,
                       warnings>>

\* start_walkie_talkie_recording(): <ButtonPress-1> on the record label.
\* The handler tests nothing; the mouse button is pressed only when it is up,
\* and is_recording tells that: the press sets it and the release clears it.
start_walkie_talkie_recording ==
    /\ ~is_recording
    /\ Unused # {}
    /\ is_recording' = TRUE
    /\ text_box' = RecordingNow
    /\ placeholder_box' = <<>>
    /\ kind' = [kind EXCEPT ![NewThread] = "rec"]
    /\ pc' = [pc EXCEPT ![NewThread] = "open"]
    /\ loc' = [loc EXCEPT ![NewThread].alone = Quiet]
    /\ UNCHANGED <<audio_data, recognizer, afterQueue, outcomes,
                   workerWrites, warnings>>

\* The capture threads a release finds between start and the end of their loop
Capturing == {t \in Threads : kind[t] = "rec" /\ pc[t] \in {"open", "loop", "read", "accept"}}

\* stop_walkie_talkie_recording(): <ButtonRelease-1>, which follows a press
stop_walkie_talkie_recording ==
    /\ is_recording
    /\ is_recording' = FALSE
    /\ loc' = [t \in Threads |->
                 IF t \in Capturing
                 THEN [loc[t] EXCEPT !.stopped = TRUE, !.afterStop = 0]
                 ELSE loc[t]]
    /\ UNCHANGED <<audio_data, text_box, placeholder_box, recognizer, kind, pc,
                   afterQueue, outcomes, workerWrites, warnings>>

\* load_audio_file(): the dialog is cancelled, or a file is chosen and the
\* task is handed to run_in_thread
load_audio_file ==
    \/ UNCHANGED vars
    \/ \E e \in Extensions, a \in FileAudios :
        /\ Unused # {}
        /\ text_box' = Processing
        /\ kind' = [kind EXCEPT ![NewThread] = "file"]
        /\ pc' = [pc EXCEPT ![NewThread] = "read"]
        /\ loc' = [loc EXCEPT ![NewThread].file_path = [ext |-> e, audio |-> a],
                              ![NewThread].alone = Quiet]
        /\ UNCHANGED <<is_recording, audio_data, placeholder_box, recognizer,
                       afterQueue, outcomes, workerWrites, warnings>>

\* The input box read without .strip()
Unstripped(box) == Get(box)

\* raw_text = self.text_box.get(1.0, tk.END).strip()
RawText(box) == Strip(Get(box))

\* submit_text(): a warning for an empty box, else the task is handed to
\* run_in_thread
submit_text ==
    \/ /\ RawText(text_box) = <<>>
       /\ warnings < MaxWarnings
       /\ warnings' = warnings + 1
       /\ UNCHANGED <<is_recording, audio_data, text_box, placeholder_box,
                      recognizer, kind, pc, loc, afterQueue, outcomes,
                      workerWrites>>
    \/ /\ RawText(text_box) # <<>>
       /\ Unused # {}
       /\ placeholder_box' = Checking
       /\ kind' = [kind EXCEPT ![NewThread] = "gram"]
       /\ pc' = [pc EXCEPT ![NewThread] = "check"]
       /\ loc' = [loc EXCEPT ![NewThread].raw_text = RawText(text_box),
                             ![NewThread].alone = Quiet]
       /\ UNCHANGED <<is_recording, audio_data, text_box, recognizer,
                      afterQueue, outcomes, workerWrites, warnings>>

-----------------------------------------------------------------------------
\* run_in_thread: the worker calls func() and schedules the callback

\* self.root.after(0, lambda: callback(result))
Post(t, res) == Append(afterQueue, [task |-> t, result |-> res])

FileResultOf(text) == [text |-> text, matches |-> {}, corrected |-> None]
GramResultOf(matches, corrected) == [text |-> <<>>, matches |-> matches, corrected |-> corrected]

\* func() returned: the callback is scheduled and the thread ends
Return(t, res) ==
    /\ afterQueue' = Post(t, res)
    /\ pc' = [pc EXCEPT ![t] = "done"]

\* An exception left the thread's target: the thread ends there
Raise(t) ==
    /\ pc' = [pc EXCEPT ![t] = "dead"]

-----------------------------------------------------------------------------
\* load_audio_file.task

\* The extension compared as it is written
NeedsTranscodeCased(path) == path.ext # ".wav"

\* file_ext != ".wav"
NeedsTranscode(path) == Lower(path.ext) # ".wav"

\* The bytes the task gets: ffmpeg's stdout, or the file read as it is
FileTaskRead(t) ==
    /\ kind[t] = "file" /\ pc[t] = "read"
    /\ IF NeedsTranscode(loc[t].file_path)
       THEN \/ /\ loc' = [loc EXCEPT ![t].io = "transcoded",
                                     ![t].ffmpeg = FfmpegArgs,
                                     ![t].data = Transcode(loc[t].file_path.audio,
                                                           FfmpegArgs)]
               /\ pc' = [pc EXCEPT ![t] = "accept"]
               /\ UNCHANGED afterQueue
            \/ \* ffmpeg exits non-zero and writes nothing: run() does not raise
               /\ loc' = [loc EXCEPT ![t].io = "nonzero", ![t].ffmpeg = FfmpegArgs,
                                     ![t].data = <<>>]
               /\ pc' = [pc EXCEPT ![t] = "accept"]
               /\ UNCHANGED afterQueue
            \/ \* no ffmpeg: run() raises, the task returns f"Error: {e}"
               /\ loc' = [loc EXCEPT ![t].io = "missing", ![t].ffmpeg = FfmpegArgs]
               /\ Return(t, FileResultOf(ErrorText("ffmpeg")))
       ELSE \/ /\ loc' = [loc EXCEPT ![t].io = "read",
                                     ![t].data = loc[t].file_path.audio]
               /\ pc' = [pc EXCEPT ![t] = "accept"]
               /\ UNCHANGED afterQueue
            \/ \* open() or read() raises
               /\ loc' = [loc EXCEPT ![t].io = "ioerror"]
               /\ Return(t, FileResultOf(ErrorText("open")))
    /\ UNCHANGED <<is_recording, audio_data, text_box, placeholder_box,
                   recognizer, kind, outcomes, workerWrites, warnings>>

\* if self.recognizer.AcceptWaveform(data): ... else: text = ""
FileTaskAccept(t) ==
    /\ kind[t] = "file" /\ pc[t] = "accept"
    /\ recognizer' = recognizer \o loc[t].data
    /\ \/ \* an utterance ended in what the recognizer holds: True
          /\ loc' = [loc EXCEPT ![t].before = recognizer, ![t].endpoint = "True"]
          /\ pc' = [pc EXCEPT ![t] = "result"]
          /\ UNCHANGED afterQueue
       \/ \* no utterance ended yet: False, and the audio stays in the recognizer
          /\ loc' = [loc EXCEPT ![t].before = recognizer, ![t].endpoint = "False"]
          /\ Return(t, FileResultOf(<<>>))
    /\ UNCHANGED <<is_recording, audio_data, text_box, placeholder_box,
                   kind, outcomes, workerWrites, warnings>>

\* result = json.loads(self.recognizer.Result()); text = result.get("text", "")
FileTaskResult(t) ==
    /\ kind[t] = "file" /\ pc[t] = "result"
    /\ recognizer' = <<>>
    /\ loc' = [loc EXCEPT ![t].finalized = TRUE]
    /\ Return(t, FileResultOf(Transcribe(recognizer)))
    /\ UNCHANGED <<is_recording, audio_data, text_box, placeholder_box,
                   kind, outcomes, workerWrites, warnings>>

-----------------------------------------------------------------------------
\* submit_text.task

\* A task that reads the input box when it runs
LiveText(t) == RawText(text_box)

\* The text the task hands to the engine: raw_text of the enclosing call
TaskText(t) == loc[t].raw_text

\* matches = self.tool.check(raw_text)
GramCheck(t) ==
    /\ kind[t] = "gram" /\ pc[t] = "check"
    /\ \/ /\ Raise(t)
          /\ UNCHANGED <<loc, afterQueue>>
       \/ LET matches == Check(TaskText(t)) IN
          /\ loc' = [loc EXCEPT ![t].matches = matches, ![t].checkedOn = TaskText(t)]
          /\ IF matches # {}
             THEN /\ pc' = [pc EXCEPT ![t] = "correct"]
                  /\ UNCHANGED afterQueue
             ELSE Return(t, GramResultOf(matches, None))
    /\ UNCHANGED <<is_recording, audio_data, text_box, placeholder_box,
                   recognizer, kind, outcomes, workerWrites, warnings>>

\* corrected = self.tool.correct(raw_text) if matches else None
GramCorrect(t) ==
    /\ kind[t] = "gram" /\ pc[t] = "correct"
    /\ \/ /\ Raise(t)
          /\ UNCHANGED <<loc, afterQueue>>
       \/ LET corrected == Correct(TaskText(t)) IN
          /\ loc' = [loc EXCEPT ![t].corrected = corrected,
                                ![t].correctedOn = TaskText(t)]
          /\ Return(t, GramResultOf(loc[t].matches, corrected))
    /\ UNCHANGED <<is_recording, audio_data, text_box, placeholder_box,
                   recognizer, kind, outcomes, workerWrites, warnings>>

-----------------------------------------------------------------------------
\* The main loop runs a scheduled callback: on_complete(result)

Delivered(t, k, text) == [outcomes EXCEPT ![t] = Append(@, [kind |-> k, text |-> text])]

\* What submit_text.on_complete inserts into the output box
Verdict(res) == IF res.matches = {} THEN CORRECT ELSE res.corrected

on_complete ==
    /\ afterQueue # <<>>
    /\ LET t == Head(afterQueue).task
           res == Head(afterQueue).result
       IN  \/ /\ kind[t] = "file"
              /\ StartsWithError(res.text)
              /\ outcomes' = Delivered(t, "error", res.text)
              /\ UNCHANGED <<text_box, placeholder_box>>
           \/ /\ kind[t] = "file"
              /\ ~StartsWithError(res.text)
              /\ text_box' = res.text
              /\ outcomes' = Delivered(t, "text", res.text)
              /\ UNCHANGED placeholder_box
           \/ /\ kind[t] = "gram"
              /\ placeholder_box' = Verdict(res)
              /\ outcomes' = Delivered(t, "text", Verdict(res))
              /\ UNCHANGED text_box
    /\ afterQueue' = Tail(afterQueue)
    /\ UNCHANGED <<is_recording, audio_data, recognizer, kind, pc, loc,
                   workerWrites, warnings>>

-----------------------------------------------------------------------------
\* record_microphone, run by the thread start_walkie_talkie_recording starts

\* A capture thread that starts on the buffer the last session left
StaleBuffer == audio_data

\* self.audio_data = b''
FreshBuffer == <<>>

\* p.open(...), stream.start_stream(), self.audio_data = b''
RecOpen(t) ==
    /\ kind[t] = "rec" /\ pc[t] = "open"
    /\ \/ \* no input device: open() raises
          /\ Raise(t)
          /\ UNCHANGED <<audio_data, loc>>
       \/ /\ loc' = [loc EXCEPT ![t].stream = TRUE]
          /\ audio_data' = FreshBuffer
          /\ pc' = [pc EXCEPT ![t] = "loop"]
    /\ UNCHANGED <<is_recording, text_box, placeholder_box, recognizer, kind,
                   afterQueue, outcomes, workerWrites, warnings>>

\* while self.is_recording: ... ; stream.stop_stream(); stream.close(); p.terminate()
RecLoop(t) ==
    /\ kind[t] = "rec" /\ pc[t] = "loop"
    /\ IF is_recording
       THEN /\ pc' = [pc EXCEPT ![t] = "read"]
            /\ UNCHANGED loc
       ELSE /\ pc' = [pc EXCEPT ![t] = "final"]
            /\ loc' = [loc EXCEPT ![t].stream = FALSE]
    /\ UNCHANGED <<is_recording, audio_data, text_box, placeholder_box,
                   recognizer, kind, afterQueue, outcomes, workerWrites, warnings>>

RECURSIVE SumRead(_)
SumRead(S) ==
    IF S = {} THEN 0
    ELSE LET t == CHOOSE u \in S : TRUE IN loc[t].nread + SumRead(S \ {t})

\* Chunks the device has delivered so far
ChunksRead == SumRead(Threads)

\* data = stream.read(4096); self.audio_data += data
RecRead(t) ==
    /\ kind[t] = "rec" /\ pc[t] = "read"
    /\ ChunksRead < MaxChunks
    /\ \/ \* the device fails: read() raises
          /\ Raise(t)
          /\ UNCHANGED <<audio_data, loc>>
       \/ \E c \in Chunks :
          /\ loc' = [loc EXCEPT ![t].data = <<c>>,
                                ![t].nread = @ + 1,
                                ![t].reads = Append(@, c),
                                ![t].appends = @ \o <<c>>,
                                ![t].afterStop = IF loc[t].stopped THEN @ + 1 ELSE @]
          /\ audio_data' = audio_data \o <<c>>
          /\ pc' = [pc EXCEPT ![t] = "accept"]
    /\ UNCHANGED <<is_recording, text_box, placeholder_box, recognizer, kind,
                   afterQueue, outcomes, workerWrites, warnings>>

\* A loop that hands the recognizer the buffer accumulated so far
WholeBuffer(t) == audio_data

\* The argument of AcceptWaveform in the loop: the chunk just read
AcceptArg(t) == loc[t].data

\* if self.recognizer.AcceptWaveform(data): pass
RecAccept(t) ==
    /\ kind[t] = "rec" /\ pc[t] = "accept"
    /\ recognizer' = recognizer \o AcceptArg(t)
    /\ loc' = [loc EXCEPT ![t].accepted = TRUE,
                          ![t].accepts = @ \o AcceptArg(t)]
    /\ pc' = [pc EXCEPT ![t] = "loop"]
    /\ UNCHANGED <<is_recording, audio_data, text_box, placeholder_box, kind,
                   afterQueue, outcomes, workerWrites, warnings>>

\* A capture thread that finalizes only a session that captured audio
RecFinalIfCaptured(t) ==
    /\ kind[t] = "rec" /\ pc[t] = "final"
    /\ loc' = [loc EXCEPT ![t].text = Transcribe(recognizer)]
    /\ recognizer' = <<>>
    /\ pc' = [pc EXCEPT ![t] = IF audio_data = <<>> THEN "done" ELSE "show"]
    /\ UNCHANGED <<is_recording, audio_data, text_box, placeholder_box, kind,
                   afterQueue, outcomes, workerWrites, warnings>>

\* final_result = json.loads(self.recognizer.FinalResult()); text = ...
RecFinal(t) ==
    /\ kind[t] = "rec" /\ pc[t] = "final"
    /\ loc' = [loc EXCEPT ![t].text = Transcribe(recognizer)]
    /\ recognizer' = <<>>
    /\ pc' = [pc EXCEPT ![t] = "show"]
    /\ UNCHANGED <<is_recording, audio_data, text_box, placeholder_box, kind,
                   afterQueue, outcomes, workerWrites, warnings>>

\* self.text_box.delete(1.0, tk.END); self.text_box.insert(tk.END, text)
RecShow(t) ==
    /\ kind[t] = "rec" /\ pc[t] = "show"
    /\ text_box' = loc[t].text
    /\ workerWrites' = workerWrites \cup {"text_box"}
    /\ outcomes' = Delivered(t, "text", loc[t].text)
    /\ pc' = [pc EXCEPT ![t] = "done"]
    /\ UNCHANGED <<is_recording, audio_data, placeholder_box, recognizer, kind,
                   loc, afterQueue, warnings>>

-----------------------------------------------------------------------------
Next ==
    \/ reset_app
    \/ enable_manual_input
    \/ UserEdit
    \/ start_walkie_talkie_recording
    \/ stop_walkie_talkie_recording
    \/ load_audio_file
    \/ submit_text
    \/ on_complete
    \/ \E t \in Threads : FileTaskRead(t)
    \/ \E t \in Threads : FileTaskAccept(t)
    \/ \E t \in Threads : FileTaskResult(t)
    \/ \E t \in Threads : GramCheck(t)
    \/ \E t \in Threads : GramCorrect(t)
    \/ \E t \in Threads : RecOpen(t)
    \/ \E t \in Threads : RecLoop(t)
    \/ \E t \in Threads : RecRead(t)
    \/ \E t \in Threads : RecAccept(t)
    \/ \E t \in Threads : RecFinal(t)
    \/ \E t \in Threads : RecShow(t)

Spec == Init /\ [][Next]_vars

-----------------------------------------------------------------------------
\* Properties

Tasks == {t \in Threads : kind[t] \in {"file", "gram"}}
Recordings == {t \in Threads : kind[t] = "rec"}
Pending(t) == \E i \in DOMAIN afterQueue : afterQueue[i].task = t
Ended(t) == pc[t] \in {"done", "dead"}
AllWhitespace(text) == \A i \in DOMAIN text : text[i] \in Whitespace

\* C1: every task handed to run_in_thread has its completion handler run
\* exactly once, whether its work succeeds or fails: never twice, and once
\* the worker has ended and nothing of it is scheduled, exactly once.
C1_ExactlyOneOutcome ==
    \A t \in Tasks :
        /\ Len(outcomes[t]) <= 1
        /\ (Ended(t) /\ ~Pending(t)) => Len(outcomes[t]) = 1

\* C2: no worker thread writes a text widget; every write of displayed text
\* is made by the main loop.
C2_OnlyInteractiveWrites == workerWrites = {}

\* C3: at most one capture loop is active at any time.
CaptureLoops == {t \in Recordings : pc[t] \in {"loop", "read", "accept"}}
C3_OneCaptureLoop == Cardinality(CaptureLoops) <= 1

\* C4: after a release, a capture thread completes at most one more chunk
\* read, and it ends by closing the device, finalizing and showing the text.
C4_StopWithinOneChunk ==
    \A t \in Recordings :
        loc[t].stopped =>
            /\ loc[t].afterStop <= 1
            /\ pc[t] = "done" => (~loc[t].stream /\ Len(outcomes[t]) = 1)

\* C5: a capture thread that ends, on a device error as on a release, has
\* closed its stream, and a device error is shown as an error.
C5_DeviceErrorClosesAndReports ==
    \A t \in Recordings :
        /\ Ended(t) => ~loc[t].stream
        /\ pc[t] = "dead" =>
              /\ Len(outcomes[t]) = 1
              /\ outcomes[t][1].kind = "error"

\* C6 as stated: whenever the session is Idle (nothing is being captured and
\* every capture thread has finalized), the accumulated audio is empty.
Idle == ~is_recording /\ \A t \in Recordings : pc[t] = "done"
C6_IdleBufferEmpty == Idle => audio_data = <<>>

\* C6 as amended: the accumulated audio is empty until the first chunk of the
\* run is read, it is emptied by the capture thread when it has opened the
\* device, before its loop, and the steps that end a session (leaving the
\* loop, finalizing, showing the text) leave it as it is.
C6_BufferClearedAtStart ==
    /\ [](ChunksRead = 0 => audio_data = <<>>)
    /\ [][\A t \in Recordings :
            /\ (pc[t] = "open" /\ pc'[t] = "loop") => audio_data' = <<>>
            /\ (pc[t] \in {"loop", "final", "show"} /\ pc'[t] # pc[t]
                  /\ pc'[t] \in {"final", "show", "done"})
                  => audio_data' = audio_data]_vars

\* A finalized session that still holds the audio it captured
C6_Witness ==
    /\ Idle
    /\ \E t \in Recordings : loc[t].nread > 0
    /\ audio_data # <<>>

\* C7: at most one thread is between its first AcceptWaveform on the shared
\* recognizer and the result it takes from it.
Consumers ==
    {t \in Threads :
        \/ kind[t] = "file" /\ pc[t] = "result"
        \/ kind[t] = "rec" /\ loc[t].accepted /\ pc[t] \in {"loop", "read", "accept", "final"}}
C7_OneRecognizerConsumer == Cardinality(Consumers) <= 1

\* C8: while the input box holds nothing but whitespace no step starts a
\* grammar task, the engine is never given whitespace-only text, and the step
\* that shows the "No Content" warning is taken on such a box and changes
\* nothing else: no thread, no callback, neither text widget.
C8_EmptySubmitSchedulesNothing ==
    /\ [](\A t \in Threads : kind[t] = "gram" =>
            /\ ~AllWhitespace(loc[t].raw_text)
            /\ loc[t].checkedOn # None => ~AllWhitespace(loc[t].checkedOn))
    /\ [][/\ AllWhitespace(text_box) =>
               \A t \in Threads : kind'[t] = "gram" => kind[t] = "gram"
          /\ warnings' # warnings =>
               /\ AllWhitespace(text_box)
               /\ warnings' = warnings + 1
               /\ UNCHANGED <<is_recording, audio_data, text_box, placeholder_box,
                              recognizer, kind, pc, loc, afterQueue, outcomes,
                              workerWrites>>]_vars

\* A whitespace-only (not empty) box was submitted and the warning shown
C8_Witness ==
    /\ warnings > 0
    /\ text_box # <<>>
    /\ AllWhitespace(text_box)
    /\ placeholder_box # Checking

\* C9: the task checks the text captured by submit_text, calls correct only
\* when check found an issue and on that same text, and what is shown is
\* CORRECT exactly when check found nothing and the corrected text otherwise.
C9_VerdictMatchesCheck ==
    \A t \in Threads : kind[t] = "gram" =>
        /\ loc[t].checkedOn # None => loc[t].checkedOn = loc[t].raw_text
        /\ loc[t].correctedOn # None =>
              /\ Check(loc[t].raw_text) # {}
              /\ loc[t].correctedOn = loc[t].raw_text
        /\ outcomes[t] # <<>> =>
              outcomes[t][1].text =
                  IF Check(loc[t].raw_text) = {} THEN CORRECT
                  ELSE Correct(loc[t].raw_text)

\* A correction was shown after the input box had been changed
C9_Witness ==
    \E t \in Threads :
        /\ kind[t] = "gram"
        /\ outcomes[t] # <<>>
        /\ Check(loc[t].raw_text) # {}
        /\ placeholder_box = Correct(loc[t].raw_text)
        /\ RawText(text_box) # loc[t].raw_text

\* C10: a transcription whose transcoder exited non-zero with empty output is
\* delivered as an error, never as a transcript.
C10_TranscodeFailureIsError ==
    \A t \in Threads :
        (kind[t] = "file" /\ loc[t].io = "nonzero") =>
            \A i \in DOMAIN outcomes[t] : outcomes[t][i].kind = "error"

\* C11: a task whose path ends in .wav, in any case, never calls the
\* transcoder and uses the file's bytes as they are; a task with any other
\* extension calls it with sample rate 16000, one channel and the wav
\* container, and uses what it wrote to its standard output.
IsWav(ext) == ext \in {".wav", ".WAV"}
C11_TranscodeOnlyNonWav ==
    \A t \in Threads : (kind[t] = "file" /\ loc[t].io # "none") =>
        IF IsWav(loc[t].file_path.ext)
        THEN /\ loc[t].ffmpeg = NoCall
             /\ loc[t].io \in {"read", "ioerror"}
             /\ loc[t].io = "read" => loc[t].data = loc[t].file_path.audio
        ELSE /\ loc[t].ffmpeg = [ar |-> 16000, ac |-> 1, f |-> "wav"]
             /\ loc[t].io \in {"transcoded", "nonzero", "missing"}
             /\ loc[t].io = "transcoded" =>
                   loc[t].data = Transcode(loc[t].file_path.audio, loc[t].ffmpeg)
             /\ loc[t].io = "nonzero" => loc[t].data = <<>>

\* An upper-case .WAV file read as it is beside a transcoded .mp3
C11_Witness ==
    \E t, u \in Threads :
        /\ kind[t] = "file" /\ loc[t].file_path.ext = ".WAV"
        /\ loc[t].io = "read" /\ loc[t].data = <<"sil", "hi44">>
        /\ kind[u] = "file" /\ loc[u].file_path.ext = ".mp3"
        /\ loc[u].io = "transcoded" /\ loc[u].data = <<"sil", "hi">>

\* C12: when two tasks are submitted to the same slot one after the other,
\* the second is started at once beside the first and marks the slot busy
\* again, both complete, and the completion marshaled last leaves its own
\* result as the text the slot displays.
SameSlot(t) == {u \in Tasks : kind[u] = kind[t]}
SlotText(k) == IF k = "file" THEN text_box ELSE placeholder_box
ResultText(t, res) == IF kind[t] = "file" THEN res.text ELSE Verdict(res)
LastOfSlot(t) ==
    /\ afterQueue # <<>> /\ Head(afterQueue).task = t
    /\ Cardinality(SameSlot(t)) = 2
    /\ \A u \in SameSlot(t) : Ended(u)
    /\ \A i \in 2..Len(afterQueue) : afterQueue[i].task \notin SameSlot(t)
C12_LastCompletionWins ==
    /\ [](\A t \in Tasks :
            (Cardinality(SameSlot(t)) = 2
             /\ \A u \in SameSlot(t) : Ended(u) /\ ~Pending(u))
            => \A u \in SameSlot(t) : Len(outcomes[u]) = 1)
    /\ [][\A t \in Threads :
            (kind[t] = "none" /\ kind'[t] \in {"file", "gram"})
            => IF kind'[t] = "file" THEN text_box' = Processing
                                    ELSE placeholder_box' = Checking]_vars
    /\ [][\A t \in Tasks :
            (LastOfSlot(t) /\ afterQueue' = Tail(afterQueue))
            => (SlotText(kind[t]))'
                   = ResultText(t, Head(afterQueue).result)]_vars

\* C13: a session released before its capture loop read any chunk still
\* closes the device, finalizes the recognizer and shows the transcript it
\* returns, empty or not, as a result and not as an error; the thread always
\* has its next step, never dies on the way, and ends done.
ZeroChunkStop(t) ==
    /\ kind[t] = "rec" /\ loc[t].nread = 0
    /\ pc[t] \in {"final", "show", "done"}
C13_ZeroChunkStopDelivers ==
    /\ [](\A t \in Threads : ZeroChunkStop(t) =>
            /\ loc[t].stopped /\ ~loc[t].stream
            /\ pc[t] = "final" => (ENABLED RecFinal(t) /\ outcomes[t] = <<>>)
            /\ pc[t] = "show" => (ENABLED RecShow(t) /\ outcomes[t] = <<>>)
            /\ pc[t] = "done" =>
                  outcomes[t] = <<[kind |-> "text", text |-> loc[t].text]>>)
    /\ [][\A t \in Threads : (ZeroChunkStop(t) /\ pc'[t] # pc[t]) =>
            \/ pc[t] = "final" /\ pc'[t] = "show"
            \/ pc[t] = "show" /\ pc'[t] = "done" /\ text_box' = loc[t].text]_vars

\* A session with no chunk has ended with the empty transcript and the
\* application is idle again
C13_Witness ==
    /\ Idle
    /\ \E t \in Threads :
        /\ ZeroChunkStop(t) /\ pc[t] = "done" /\ loc[t].stopped
        /\ outcomes[t] = <<[kind |-> "text", text |-> <<>>]>>

\* C14: a file task hands its whole buffer to the recognizer in one call and
\* then always finalizes, whatever that call returned, so a task that has
\* ended leaves none of its file's audio in the recognizer.
Fed(t) == kind[t] = "file" /\ loc[t].endpoint # "none"
C14_FileAlwaysFinalized ==
    \A t \in Threads : (Fed(t) /\ pc[t] = "done") =>
        /\ loc[t].finalized
        /\ (\A u \in Threads \ {t} : kind[u] = "none") => recognizer = <<>>

\* C15: in one recording session the chunks handed to the recognizer are the
\* chunks read from the device, in the order read, none dropped, repeated or
\* moved, and they are the chunks appended to the audio buffer; with no other
\* session the buffer holds exactly them, and with no other thread the
\* recognizer does until it is finalized.
Front(q) == SubSeq(q, 1, Len(q) - 1)
C15_AcceptedIsCaptured ==
    \A t \in Recordings :
        /\ Len(loc[t].reads) = loc[t].nread
        /\ loc[t].appends = loc[t].reads
        /\ loc[t].accepts = IF pc[t] = "accept" THEN Front(loc[t].reads)
                                                ELSE loc[t].reads
        /\ Recordings = {t} => audio_data = loc[t].reads
        /\ ((\A u \in Threads \ {t} : kind[u] = "none")
            /\ pc[t] \notin {"show", "done"}) => recognizer = loc[t].accepts

\* A session that read a silent and a voiced chunk and accepted both
C15_Witness ==
    \E t \in Recordings :
        /\ pc[t] = "final"
        /\ loc[t].reads = <<"sil", "hi">>
        /\ loc[t].accepts = <<"sil", "hi">>
        /\ audio_data = <<"sil", "hi">>

\* C16: the handler step that submits a task writes the slot's placeholder
\* itself and ends with the thread at its first statement and none of the
\* task's work done; every piece of that work is a later step of the thread.
Started(t) == kind[t] = "none" /\ kind'[t] \in {"file", "gram"}
WorkDone(t) ==
    \/ loc[t].io # "none" \/ loc[t].endpoint # "none" \/ loc[t].finalized
    \/ loc[t].checkedOn # None \/ loc[t].correctedOn # None
    \/ Pending(t) \/ outcomes[t] # <<>>
C16_PlaceholderBeforeWork ==
    /\ [][\A t \in Threads : Started(t) =>
            /\ kind'[t] = "file" =>
                  (text_box' = <<"Processing audio file...">> /\ pc'[t] = "read")
            /\ kind'[t] = "gram" =>
                  (placeholder_box' = <<"Checking grammar...">> /\ pc'[t] = "check")
            /\ ~WorkDone(t)' /\ recognizer' = recognizer
            /\ workerWrites' = workerWrites]_vars
    /\ [][\A t \in Threads :
            (loc'[t].io # loc[t].io \/ loc'[t].endpoint # loc[t].endpoint
             \/ loc'[t].finalized # loc[t].finalized
             \/ loc'[t].checkedOn # loc[t].checkedOn
             \/ loc'[t].correctedOn # loc[t].correctedOn)
            => (kind[t] \in {"file", "gram"}
                /\ pc[t] \in {"read", "accept", "result", "check", "correct"}
                /\ text_box' = text_box /\ placeholder_box' = placeholder_box)]_vars

\* A file task and a grammar task just submitted, both placeholders shown and
\* neither thread has run
C16_Witness ==
    \E t, u \in Threads :
        /\ kind[t] = "file" /\ pc[t] = "read" /\ ~WorkDone(t)
        /\ kind[u] = "gram" /\ pc[u] = "check" /\ ~WorkDone(u)
        /\ text_box = Processing /\ placeholder_box = Checking

\* C17: the same file transcribed twice in a row, the second task started
\* after the first has completed, gives the same text both times when the
\* recognizer is deterministic (from the same state it answers the same
\* buffer alike): the second text owes nothing to what the first left.
InARow(t, u) ==
    /\ t < u /\ kind[t] = "file" /\ kind[u] = "file"
    /\ loc[t].alone /\ loc[u].alone
    /\ loc[t].file_path = loc[u].file_path
    /\ loc[t].io = loc[u].io /\ loc[t].data = loc[u].data
SameAnswer(t, u) ==
    loc[t].before = loc[u].before => loc[t].endpoint = loc[u].endpoint
C17_SameFileSameText ==
    \A t, u \in Threads :
        (InARow(t, u) /\ Fed(t) /\ Fed(u) /\ SameAnswer(t, u)
         /\ Len(outcomes[t]) = 1 /\ Len(outcomes[u]) = 1)
        => outcomes[t][1] = outcomes[u][1]

\* C18: when every operation was started after all the earlier ones had
\* completed, the transcript a finished session shows is the recognizer's
\* result for the chunks that session read and nothing else.
Sequential == \A u \in Threads : kind[u] # "none" => loc[u].alone
C18_TranscriptIsSessionAudio ==
    \A t \in Recordings :
        (Sequential /\ pc[t] = "done")
        => outcomes[t] = <<[kind |-> "text", text |-> Transcribe(loc[t].reads)]>>

\* C19: a slot shows a busy placeholder only while a task or capture that
\* wrote it is still running or has its completion scheduled; once none is,
\* the placeholder is gone, whether the work succeeded or failed.
InFlight(k) == \E t \in Threads : kind[t] = k /\ (~Ended(t) \/ Pending(t))
C19_NoStalePlaceholder ==
    /\ ~InFlight("file") => text_box # Processing
    /\ ~InFlight("rec") => text_box # RecordingNow
    /\ ~InFlight("gram") => placeholder_box # Checking

=============================================================================
